---------------------------- MODULE Spec2Model ----------------------------
(***************************************************************************)
(* telegraph-rs: the HTML-to-content-tree converter (html_to_node,         *)
(* html_to_node_inner in src/src/lib.rs), the serde encoding and decoding  *)
(* of Node / NodeElement (src/src/types.rs).                               *)
(*                                                                         *)
(* The markup parser (libxml) is an external library.  Its result, the     *)
(* generic DOM, is the input of the model: every call starts from a parse  *)
(* outcome drawn from a bounded set of documents.                          *)
(***************************************************************************)
EXTENDS Integers, Sequences, FiniteSets, TLC

VARIABLES
    parsed,   \* what parser.parse_string(html) yields for this call's input
    pc,       \* "call" | "returned" | "panicked" | "decoded"
    nodes,    \* html_to_node: the Vec<Option<Node>> collected at lib.rs:456-460
    json,     \* the serde data-model value of `nodes` (what to_string writes)
    out,      \* the String html_to_node returns
    content,  \* Page.content decoded from the echoed array (types.rs:59-60)
    calls,    \* concurrent invocations of html_to_node: each call's own locals
    builder,    \* the AccountBuilder in hand (lib.rs:37-44)
    telegraph,  \* the Telegraph handle in hand (lib.rs:141-148)
    apiPc,      \* "building" | "ready" | "failed" | "panicked" | "static"
    requests,   \* the requests the most recent method call sent, in order
    reply,      \* the service's answer to the last request
    result,     \* what the most recent method call returned
    overridden, \* the builder fields set by a setter since the builder was made
    revoked,    \* the token the service holds for the handle: that of the last
                \* successful revoke, or the one the handle was made with
    edited,     \* the handle edit_account_info consumed to make the builder
    account,    \* the account as the service stores it
    time,       \* the `time` argument, when the most recent call is get_views
    op          \* the name of the most recent call

\* the converter's state
convVars == <<parsed, pc, nodes, json, out, content>>
\* the state of the concurrent invocations
concVars == <<calls>>
\* the state of the API binding
apiVars == <<builder, telegraph, apiPc, requests, reply, result, overridden,
             revoked, edited, account, time, op>>

vars == <<convVars, concVars, apiVars>>

---------------------------------------------------------------------------
(* Bounds of the model. *)

\* The most DOM nodes below the effective root of a document.
MaxNodes == 3

\* The number of concurrent invocations of html_to_node.
NumCalls == 2

---------------------------------------------------------------------------
(* Rust's Option<T>: None is the empty sequence, Some(x) the singleton. *)

None == <<>>
Some(x) == <<x>>
IsSome(o) == Len(o) = 1
IsNone(o) == Len(o) = 0
Unwrap(o) == o[1]

\* Result<T, E> of a decoder
Ok(x) == [ok |-> TRUE, val |-> x]
Err == [ok |-> FALSE, val |-> <<>>]

Range(s) == {s[i] : i \in DOMAIN s}

---------------------------------------------------------------------------
(* The generic DOM the parser yields (libxml::tree::Node as the code reads *)
(* it: get_type, get_name, get_content, get_attributes, get_child_nodes).  *)
(* `attrs` keeps the attributes in the order of the source markup, each a  *)
(* pair <<name, Option value>>.                                            *)

TextNode(s) ==
    [type |-> "TextNode", name |-> "text", content |-> s,
     attrs |-> <<>>, childs |-> <<>>]

CommentNode(s) ==
    [type |-> "CommentNode", name |-> "comment", content |-> s,
     attrs |-> <<>>, childs |-> <<>>]

\* a node of another kind that has children of its own, as an entity reference
\* node has the content of its entity
EntityRefNode(childs) ==
    [type |-> "EntityRefNode", name |-> "ent", content |-> "",
     attrs |-> <<>>, childs |-> childs]

ElementNode(name, attrs, childs) ==
    [type |-> "ElementNode", name |-> name, content |-> "",
     attrs |-> attrs, childs |-> childs]

get_type(node) == node.type
get_name(node) == node.name
get_content(node) == node.content
get_child_nodes(node) == node.childs

\* node.get_attributes(): a HashMap<String, Option<String>>, modelled as a
\* function from the attribute names to their values.  The map keeps no order.
get_attributes(node) ==
    [k \in {a[1] : a \in Range(node.attrs)} |->
        (CHOOSE a \in Range(node.attrs) : a[1] = k)[2]]

\* node.get_first_element_child(): the first child whose type is ElementNode
get_first_element_child(node) ==
    LET idx == {i \in DOMAIN node.childs : node.childs[i].type = "ElementNode"}
    IN  IF idx = {} THEN None
        ELSE Some(node.childs[CHOOSE i \in idx : \A j \in idx : i <= j])

---------------------------------------------------------------------------
(* The bounded set of inputs. *)

Tags == {"p"}
Texts == {"Hello, world"}
Comments == {" comment "}

\* the attributes an element of the inputs may carry: one with a value, one
\* without (as in <input disabled>)
Attrs == {<<"href", Some("u")>>, <<"disabled", None>>}

\* every attribute list without a repeated name, in every source order
AttrLists ==
    {<<>>} \cup {<<a>> : a \in Attrs}
           \cup {x \in Attrs \X Attrs : x[1][1] # x[2][1]}

\* the nodes without children: text, comment, childless element
Leaves ==
    {TextNode(s) : s \in Texts} \cup {CommentNode(s) : s \in Comments}
        \cup {ElementNode(t, al, <<>>) : t \in Tags, al \in AttrLists}

\* the trees of exactly k nodes, given the forests of fewer nodes
\* (table[i + 1] holds the forests of exactly i nodes)
TreesExact(k, table) ==
    IF k = 1 THEN Leaves
    ELSE {ElementNode(t, al, f) : t \in Tags, al \in AttrLists, f \in table[k]}

RECURSIVE ForestTable(_)
\* ForestTable(n)[i + 1]: the sequences of sibling trees of exactly i nodes in
\* all, for i in 0..n
ForestTable(n) ==
    IF n = 0 THEN << {<<>>} >>
    ELSE LET table == ForestTable(n - 1)
             exact == UNION {{<<t>> \o f : t \in TreesExact(k, table),
                                           f \in table[n - k + 1]} : k \in 1..n}
         IN  Append(table, exact)

Forests(n) == IF n < 0 THEN {} ELSE UNION Range(ForestTable(n))

Body(f) == ElementNode("body", <<>>, f)
HeadElement ==
    ElementNode("head", <<>>,
                <<ElementNode("title", <<>>, <<TextNode("Hello, world")>>)>>)
Html(childs) == ElementNode("html", <<>>, childs)

\* Result<Document, XmlParseError> of parse_string, with the document's root
ParseErr == [ok |-> FALSE, root |-> None]
Document(root) == [ok |-> TRUE, root |-> root]

\* the document the parser yields for a fragment whose body holds the trees f
BodyDocument(f) == Document(Some(Html(<<Body(f)>>)))

\* subtrees below a node that is neither text nor element; their text and
\* their tag occur nowhere else in the inputs
DroppedSubtrees ==
    {<<TextNode("hidden")>>,
     <<ElementNode("s", <<>>, <<>>)>>,
     <<ElementNode("s", <<>>, <<TextNode("hidden")>>), TextNode("hidden")>>}

\* bodies that hold such a node: alone, before and after a sibling, and as
\* the child of an element
DroppedBodies ==
    UNION {{<<EntityRefNode(d)>>,
            <<EntityRefNode(d), TextNode("Hello, world")>>,
            <<ElementNode("p", <<>>, <<>>), EntityRefNode(d)>>,
            <<ElementNode("p", <<>>, <<EntityRefNode(d)>>)>>,
            <<ElementNode("p", <<>>, <<TextNode("Hello, world"), EntityRefNode(d)>>)>>} :
           d \in DroppedSubtrees}

\* What the parser may yield besides a document with a body: a failure, a
\* document without a root element, a root without an element child, and a
\* root whose body follows a head.
OtherOutcomes ==
    {ParseErr, Document(None), Document(Some(Html(<<>>))),
     Document(Some(Html(<<CommentNode(" comment ")>>)))}
        \cup {Document(Some(Html(<<HeadElement, Body(f)>>))) :
                    f \in Forests(MaxNodes - 2)}
        \cup {BodyDocument(f) : f \in DroppedBodies}

\* the outcomes the parser yields for the empty fragment ""
EmptyFragmentOutcomes ==
    {ParseErr, Document(None), Document(Some(Html(<<>>)))}

---------------------------------------------------------------------------
(* types.rs: Node and NodeElement. *)

NodeText(s) == [variant |-> "Text", text |-> s]
NodeElement(tag, attrs, children) ==
    [variant |-> "NodeElement", tag |-> tag, attrs |-> attrs,
     children |-> children]

---------------------------------------------------------------------------
(* lib.rs: html_to_node_inner. *)

\* AttrsField without the is_empty test
AttrsField_unchecked(attrs) == Some(attrs)

\* lib.rs:469-476: the attrs field of the converted element
AttrsField(attrs) ==
    IF DOMAIN attrs = {} THEN None ELSE Some(attrs)

\* CollectOption yielding the items last to first
CollectOption_reversed(opts) ==
    IF \E i \in DOMAIN opts : IsNone(opts[i]) THEN None
    ELSE Some([i \in DOMAIN opts |-> Unwrap(opts[Len(opts) + 1 - i])])

\* lib.rs:485: Iterator::collect::<Option<Vec<_>>>(): None as soon as one of
\* the items is None, else Some of the unwrapped items in order
CollectOption(opts) ==
    IF \E i \in DOMAIN opts : IsNone(opts[i]) THEN None
    ELSE Some([i \in DOMAIN opts |-> Unwrap(opts[i])])

RECURSIVE html_to_node_inner(_)
\* lib.rs:477-487: the children field of the converted element
ChildrenField(childs) ==
    IF childs = <<>> THEN None
    ELSE CollectOption([i \in DOMAIN childs |-> html_to_node_inner(childs[i])])

\* html_to_node_inner handing on the conversion of the first child of a node
\* that is neither text nor element
html_to_node_inner_hoisting(node) ==
    CASE get_type(node) = "TextNode" -> Some(NodeText(get_content(node)))
      [] get_type(node) = "ElementNode" ->
            Some(NodeElement(get_name(node),
                             AttrsField(get_attributes(node)),
                             ChildrenField(get_child_nodes(node))))
      [] OTHER -> IF get_child_nodes(node) = <<>> THEN None
                  ELSE html_to_node_inner(get_child_nodes(node)[1])

html_to_node_inner(node) ==
    CASE get_type(node) = "TextNode" -> Some(NodeText(get_content(node)))
      [] get_type(node) = "ElementNode" ->
            Some(NodeElement(get_name(node),
                             AttrsField(get_attributes(node)),
                             ChildrenField(get_child_nodes(node))))
      [] OTHER -> None

---------------------------------------------------------------------------
(* serde's data model for JSON: what Serialize hands to serde_json and     *)
(* what serde_json hands to Deserialize.  An object keeps its members in   *)
(* the order they were written.                                            *)

VNull == [j |-> "null"]
VString(s) == [j |-> "string", s |-> s]
VArray(items) == [j |-> "array", items |-> items]
VObject(members) == [j |-> "object", members |-> members]

\* the orders in which a HashMap over the keys S may be iterated: std's
\* HashMap (RandomState) fixes none
Orderings(S) ==
    {p \in [1..Cardinality(S) -> S] : \A i, k \in DOMAIN p : i # k => p[i] # p[k]}

\* SerOptionString writing None as the empty string
SerOptionString_empty(o) ==
    IF IsNone(o) THEN VString("") ELSE VString(Unwrap(o))

\* Option<String>: None is written as null
SerOptionString(o) ==
    IF IsNone(o) THEN VNull ELSE VString(Unwrap(o))

\* HashMap<String, Option<String>>: one member per entry, in iteration order
SerHashMap(m) ==
    {VObject([i \in DOMAIN p |-> <<p[i], SerOptionString(m[p[i]])>>]) :
        p \in Orderings(DOMAIN m)}

\* types.rs:97-98: attrs, #[serde(skip_serializing_if = "Option::is_none")]
SerAttrsField(attrs) ==
    IF IsNone(attrs) THEN {<<>>}
    ELSE {<< <<"attrs", v>> >> : v \in SerHashMap(Unwrap(attrs))}

RECURSIVE SerNode(_)
RECURSIVE SerNodeSeq(_)

\* types.rs:100-101: children, #[serde(skip_serializing_if = "Option::is_none")]
SerChildrenField(children) ==
    IF IsNone(children) THEN {<<>>}
    ELSE {<< <<"children", VArray(c)>> >> : c \in SerNodeSeq(Unwrap(children))}

\* SerNodeElement with children written before attrs
SerNodeElement_childrenFirst(e) ==
    {VObject(<< <<"tag", VString(e.tag)>> >> \o c \o a) :
        a \in SerAttrsField(e.attrs), c \in SerChildrenField(e.children)}

\* types.rs:86-102: derive(Serialize) for NodeElement: the fields in
\* declaration order
SerNodeElement(e) ==
    {VObject(<< <<"tag", VString(e.tag)>> >> \o a \o c) :
        a \in SerAttrsField(e.attrs), c \in SerChildrenField(e.children)}

\* SerNode without #[serde(untagged)]: serde's default, externally tagged form
SerNode_tagged(n) ==
    IF n.variant = "Text" THEN {VObject(<< <<"Text", VString(n.text)>> >>)}
    ELSE {VObject(<< <<"NodeElement", v>> >>) : v \in SerNodeElement(n)}

\* types.rs:76-83: derive(Serialize), #[serde(untagged)] for Node
SerNode(n) ==
    IF n.variant = "Text" THEN {VString(n.text)} ELSE SerNodeElement(n)

SerNodeSeq(ns) ==
    IF ns = <<>> THEN {<<>>}
    ELSE {<<h>> \o t : h \in SerNode(Head(ns)), t \in SerNodeSeq(Tail(ns))}

\* Option<Node>: None is written as null
SerOptionNode(o) ==
    IF IsNone(o) THEN {VNull} ELSE SerNode(Unwrap(o))

RECURSIVE SerOptionNodeSeq(_)
SerOptionNodeSeq(os) ==
    IF os = <<>> THEN {<<>>}
    ELSE {<<h>> \o t :
            h \in SerOptionNode(Head(os)), t \in SerOptionNodeSeq(Tail(os))}

\* lib.rs:461: the values serde_json::to_string(&nodes) may write for a
\* Vec<Option<Node>>
SerVecOptionNode(os) ==
    {VArray(items) : items \in SerOptionNodeSeq(os)}

\* serde_json's compact text of a value.  No string of the inputs holds a
\* character that JSON escapes.
RenderString(s) == "\"" \o s \o "\""

RECURSIVE Render(_)
RECURSIVE RenderItems(_)
RECURSIVE RenderMembers(_)
RenderItems(items) ==
    IF items = <<>> THEN ""
    ELSE Render(Head(items))
            \o (IF Len(items) = 1 THEN "" ELSE "," \o RenderItems(Tail(items)))

RenderMembers(members) ==
    IF members = <<>> THEN ""
    ELSE RenderString(Head(members)[1]) \o ":" \o Render(Head(members)[2])
            \o (IF Len(members) = 1 THEN ""
                ELSE "," \o RenderMembers(Tail(members)))

Render(v) ==
    CASE v.j = "null" -> "null"
      [] v.j = "string" -> RenderString(v.s)
      [] v.j = "array" -> "[" \o RenderItems(v.items) \o "]"
      [] v.j = "object" -> "{" \o RenderMembers(v.members) \o "}"

---------------------------------------------------------------------------
(* types.rs: derive(Deserialize) for Node and NodeElement. *)

\* the values of the members of an object that carry the key
Members(v, key) ==
    SelectSeq(v.members, LAMBDA m : m[1] = key)

\* Option<String>: null is None, a string is Some
DeOptionString(v) ==
    CASE v.j = "null" -> Ok(None)
      [] v.j = "string" -> Ok(Some(v.s))
      [] OTHER -> Err

\* HashMap<String, Option<String>>: an object; a repeated key keeps the value
\* inserted last
DeHashMap(v) ==
    IF v.j # "object" THEN Err
    ELSE LET rs == [i \in DOMAIN v.members |-> DeOptionString(v.members[i][2])]
             last(k) == CHOOSE i \in DOMAIN v.members :
                            /\ v.members[i][1] = k
                            /\ \A i2 \in DOMAIN v.members :
                                    v.members[i2][1] = k => i2 <= i
         IN  IF \E i \in DOMAIN rs : ~rs[i].ok THEN Err
             ELSE Ok([k \in {v.members[i][1] : i \in DOMAIN v.members} |->
                        rs[last(k)].val])

\* types.rs:97-98: attrs: Option<HashMap<..>>: a missing key and null are None
DeAttrsField(v) ==
    LET ms == Members(v, "attrs")
        r == DeHashMap(ms[1][2])
    IN  IF Len(ms) = 0 THEN Ok(None)
        ELSE IF Len(ms) > 1 THEN Err
        ELSE IF ms[1][2].j = "null" THEN Ok(None)
        ELSE IF r.ok THEN Ok(Some(r.val))
        ELSE Err

RECURSIVE DeNode(_)

\* Vec<Node>: an array whose every item decodes
DeVecNode(v) ==
    IF v.j # "array" THEN Err
    ELSE LET rs == [i \in DOMAIN v.items |-> DeNode(v.items[i])]
         IN  IF \E i \in DOMAIN rs : ~rs[i].ok THEN Err
             ELSE Ok([i \in DOMAIN rs |-> rs[i].val])

\* types.rs:100-101: children: Option<Vec<Node>>
DeChildrenField(v) ==
    LET ms == Members(v, "children")
        r == DeVecNode(ms[1][2])
    IN  IF Len(ms) = 0 THEN Ok(None)
        ELSE IF Len(ms) > 1 THEN Err
        ELSE IF ms[1][2].j = "null" THEN Ok(None)
        ELSE IF r.ok THEN Ok(Some(r.val))
        ELSE Err

\* types.rs:86-102: derive(Deserialize) for NodeElement, from an object: tag
\* is required, a repeated field is an error, other keys are ignored.  (The
\* derive also accepts an array of the fields; no value written by the
\* serializer above puts an array where a Node stands.)
DeNodeElement(v) ==
    IF v.j # "object" THEN Err
    ELSE LET tags == Members(v, "tag")
             a == DeAttrsField(v)
             c == DeChildrenField(v)
         IN  IF Len(tags) # 1 THEN Err
             ELSE IF tags[1][2].j # "string" THEN Err
             ELSE IF ~a.ok \/ ~c.ok THEN Err
             ELSE Ok(NodeElement(tags[1][2].s, a.val, c.val))

\* types.rs:76-83: derive(Deserialize), #[serde(untagged)] for Node: the first
\* variant, in declaration order, that the value decodes as
DeNode(v) ==
    IF v.j = "string" THEN Ok(NodeText(v.s)) ELSE DeNodeElement(v)

---------------------------------------------------------------------------
(* The state machine. *)

\* no concurrent invocation is under way
ConcIdle == calls = <<>>

\* the API binding is not in use
ApiIdle ==
    /\ builder = <<>>
    /\ telegraph = <<>>
    /\ apiPc = "off"
    /\ requests = <<>>
    /\ reply = <<>>
    /\ result = <<>>
    /\ overridden = {}
    /\ revoked = <<>>
    /\ edited = <<>>
    /\ account = <<>>
    /\ time = <<>>
    /\ op = ""

\* The input of a call: any parse outcome whose body holds at most MaxNodes
\* nodes (no tree, or a first tree of k nodes followed by siblings of the
\* remaining nodes), or one of OtherOutcomes.
Init ==
    /\ LET table == ForestTable(MaxNodes - 1)
       IN  \/ parsed \in OtherOutcomes
           \/ parsed = BodyDocument(<<>>)
           \/ \E m \in 1..MaxNodes : \E k \in 1..m : \E rest \in table[m - k + 1] :
                 IF k = 1
                 THEN \E t \in Leaves : parsed = BodyDocument(<<t>> \o rest)
                 ELSE \E t \in Tags, al \in AttrLists, g \in table[k] :
                        parsed = BodyDocument(<<ElementNode(t, al, g)>> \o rest)
    /\ pc = "call"
    /\ nodes = <<>>
    /\ json = VNull
    /\ out = ""
    /\ content = Err
    /\ ConcIdle
    /\ ApiIdle

\* lib.rs:448-462.  The three unwraps panic on a parse failure, on a document
\* without a root element and on a root without an element child.
html_to_node ==
    /\ pc = "call"
    /\ IF \/ ~parsed.ok
          \/ IsNone(parsed.root)
          \/ IsNone(get_first_element_child(Unwrap(parsed.root)))
       THEN /\ pc' = "panicked"
            /\ UNCHANGED <<nodes, json, out>>
       ELSE LET node == Unwrap(get_first_element_child(Unwrap(parsed.root)))
                childs == get_child_nodes(node)
                ns == [i \in DOMAIN childs |-> html_to_node_inner(childs[i])]
            IN  \E v \in SerVecOptionNode(ns) :
                    /\ nodes' = ns
                    /\ json' = v
                    /\ out' = Render(v)
                    /\ pc' = "returned"
    /\ UNCHANGED <<parsed, content>>
    /\ UNCHANGED <<concVars, apiVars>>

\* types.rs:59-60: Page.content, the node array of a page read back from the
\* service, which echoes the array it was sent
DecodeContent ==
    /\ pc = "returned"
    /\ content' = DeVecNode(json)
    /\ pc' = "decoded"
    /\ UNCHANGED <<parsed, nodes, json, out>>
    /\ UNCHANGED <<concVars, apiVars>>

Next == html_to_node \/ DecodeContent

Spec == Init /\ [][Next]_vars

---------------------------------------------------------------------------
(* Concurrent invocations of html_to_node (lib.rs:448-462).  A call owns   *)
(* its input and keeps everything it reads and writes in its own locals:   *)
(* the document, the node it descends into, the collected nodes, the       *)
(* string.  Each call advances by steps that interleave with the others'.  *)

Calls == 1..NumCalls

\* the inputs of the concurrent calls
ConcInputs ==
    {BodyDocument(<<>>),
     BodyDocument(<<ElementNode("p", <<>>, <<TextNode("Hello, world")>>)>>),
     BodyDocument(<<CommentNode(" comment "),
                    ElementNode("p", << <<"href", Some("u")>>, <<"disabled", None>> >>,
                                <<>>)>>),
     Document(None)}

\* the converter's single-call state is not in use
ConvIdle ==
    /\ parsed = ParseErr
    /\ pc = "off"
    /\ nodes = <<>>
    /\ json = VNull
    /\ out = ""
    /\ content = Err

ConcInit ==
    /\ calls \in [Calls -> {[parsed |-> d, pc |-> "call", node |-> None,
                             nodes |-> <<>>, out |-> ""] : d \in ConcInputs}]
    /\ ConvIdle
    /\ ApiIdle

\* NodeOf reading a slot that all calls share: the node of the first call that
\* has located one
NodeOf_shared(t) ==
    Unwrap(calls[CHOOSE u \in Calls :
                    /\ IsSome(calls[u].node)
                    /\ \A w \in Calls : IsSome(calls[w].node) => u <= w].node)

\* lib.rs:451: `node`, a local of the call
NodeOf(t) == Unwrap(calls[t].node)

\* lib.rs:449-455: parse and descend to the root's first element child, or
\* panic in an unwrap (the panic unwinds the calling thread only)
ParseStep(t) ==
    /\ calls[t].pc = "call"
    /\ LET d == calls[t].parsed
       IN  IF \/ ~d.ok
              \/ IsNone(d.root)
              \/ IsNone(get_first_element_child(Unwrap(d.root)))
           THEN calls' = [calls EXCEPT ![t].pc = "panicked"]
           ELSE calls' = [calls EXCEPT
                            ![t].pc = "root",
                            ![t].node = get_first_element_child(Unwrap(d.root))]
    /\ UNCHANGED <<convVars, apiVars>>

\* lib.rs:456-460: convert the child nodes
WalkStep(t) ==
    /\ calls[t].pc = "root"
    /\ LET childs == get_child_nodes(NodeOf(t))
       IN  calls' = [calls EXCEPT
                        ![t].pc = "walked",
                        ![t].nodes = [i \in DOMAIN childs |->
                                        html_to_node_inner(childs[i])]]
    /\ UNCHANGED <<convVars, apiVars>>

\* lib.rs:461: serialize
SerializeStep(t) ==
    /\ calls[t].pc = "walked"
    /\ \E v \in SerVecOptionNode(calls[t].nodes) :
          calls' = [calls EXCEPT ![t].pc = "returned", ![t].out = Render(v)]
    /\ UNCHANGED <<convVars, apiVars>>

ConcNext ==
    \E t \in Calls : ParseStep(t) \/ WalkStep(t) \/ SerializeStep(t)

ConcSpec == ConcInit /\ [][ConcNext]_vars

---------------------------------------------------------------------------
(* The HTTP binding: replies of the service as JSON values, and their      *)
(* decoding into the reply types (types.rs) through ApiResult (error.rs).  *)

VBool(b) == [j |-> "bool", b |-> b]
VNumber(n) == [j |-> "number", n |-> n]

\* a struct field of type Option<String>: a missing key is None
DeOptionStringField(v, key) ==
    LET ms == Members(v, key)
    IN  IF ms = <<>> THEN Ok(None)
        ELSE IF Len(ms) > 1 THEN Err
        ELSE DeOptionString(ms[1][2])

\* a struct field of type String: required
DeStringField(v, key) ==
    LET ms == Members(v, key)
    IN  IF Len(ms) = 1 /\ ms[1][2].j = "string" THEN Ok(ms[1][2].s) ELSE Err

\* a struct field of type i32: required
DeI32Field(v, key) ==
    LET ms == Members(v, key)
    IN  IF /\ Len(ms) = 1
           /\ ms[1][2].j = "number"
           /\ ms[1][2].n >= -2147483647 - 1
           /\ ms[1][2].n <= 2147483647
        THEN Ok(ms[1][2].n) ELSE Err

\* types.rs:6-29
DeAccount(v) ==
    IF v.j # "object" THEN Err
    ELSE LET sn == DeOptionStringField(v, "short_name")
             an == DeOptionStringField(v, "author_name")
             au == DeOptionStringField(v, "author_url")
             at == DeOptionStringField(v, "access_token")
             ah == DeOptionStringField(v, "auth_url")
         IN  IF sn.ok /\ an.ok /\ au.ok /\ at.ok /\ ah.ok
             THEN Ok([short_name |-> sn.val, author_name |-> an.val,
                      author_url |-> au.val, access_token |-> at.val,
                      auth_url |-> ah.val])
             ELSE Err

\* types.rs:40-68
DePage(v) ==
    IF v.j # "object" THEN Err
    ELSE LET path == DeStringField(v, "path")
             url == DeStringField(v, "url")
             title == DeStringField(v, "title")
             description == DeStringField(v, "description")
             an == DeOptionStringField(v, "author_name")
             au == DeOptionStringField(v, "author_url")
             views == DeI32Field(v, "views")
         IN  IF /\ path.ok /\ url.ok /\ title.ok /\ description.ok
                /\ an.ok /\ au.ok /\ views.ok
             THEN Ok([path |-> path.val, url |-> url.val, title |-> title.val,
                      description |-> description.val, author_name |-> an.val,
                      author_url |-> au.val, views |-> views.val])
             ELSE Err

\* types.rs:31-38
DePageList(v) ==
    IF v.j # "object" THEN Err
    ELSE LET total == DeI32Field(v, "total_count")
             ps == Members(v, "pages")
         IN  IF total.ok /\ Len(ps) = 1 /\ ps[1][2].j = "array"
             THEN LET items == ps[1][2].items
                      pages == [i \in DOMAIN items |-> DePage(items[i])]
                  IN  IF \A i \in DOMAIN pages : pages[i].ok
                      THEN Ok([total_count |-> total.val,
                               pages |-> [i \in DOMAIN pages |-> pages[i].val]])
                      ELSE Err
             ELSE Err

\* types.rs:70-75
DePageViews(v) ==
    IF v.j # "object" THEN Err
    ELSE LET views == DeI32Field(v, "views")
         IN  IF views.ok THEN Ok([views |-> views.val]) ELSE Err

\* the reply type of each method
DeResultOf(method, v) ==
    CASE method \in {"createAccount", "editAccountInfo", "getAccountInfo",
                     "revokeAccessToken"} -> DeAccount(v)
      [] method \in {"createPage", "editPage", "getPage"} -> DePage(v)
      [] method = "getPageList" -> DePageList(v)
      [] method = "getViews" -> DePageViews(v)

\* DeApiResult with `result` defaulted when the key is missing
DeApiResult_defaulted(method, v) ==
    IF v.j # "object" THEN Err
    ELSE Ok([variant |-> "Ok",
             result |-> [short_name |-> None, author_name |-> None,
                         author_url |-> None, access_token |-> None,
                         auth_url |-> None],
             error |-> ""])

\* error.rs:4-9: ApiResult<T> is untagged: `Ok { result }` is tried first,
\* then `Err { ok, error }`; a body matching neither is a decoding error
DeApiResult(method, v) ==
    LET rs == IF v.j = "object" THEN Members(v, "result") ELSE <<>>
        r == IF Len(rs) = 1 THEN DeResultOf(method, rs[1][2]) ELSE Err
    IN  IF r.ok THEN Ok([variant |-> "Ok", result |-> r.val, error |-> ""])
        ELSE IF v.j # "object" THEN Err
        ELSE LET oks == Members(v, "ok")
                 es == Members(v, "error")
             IN  IF /\ Len(oks) = 1 /\ oks[1][2].j = "bool"
                    /\ Len(es) = 1 /\ es[1][2].j = "string"
                 THEN Ok([variant |-> "Err", result |-> VNull,
                          error |-> es[1][2].s])
                 ELSE Err

\* what a method returns: Ok(val), Err(Error::ApiError(msg)) or
\* Err(Error::ReqwestError); NoResult before any method has returned
MethodResult(kind, val, msg) == [kind |-> kind, val |-> val, msg |-> msg]
NoResult == MethodResult("none", VNull, "")
ReqwestError == MethodResult("ReqwestError", VNull, "")

\* error.rs:11-18
Into(a) ==
    IF a.variant = "Ok" THEN MethodResult("Ok", a.result, "")
    ELSE MethodResult("ApiError", VNull, a.error)

\* what the client receives: nothing yet, a transport failure of send(), or a
\* body
NoReply == [kind |-> "none", body |-> VNull]
TransportFailure == [kind |-> "transport", body |-> VNull]
ReplyBody(v) == [kind |-> "body", body |-> v]

\* `.send().await?` followed by `response.json::<ApiResult<T>>().await?.into()`
\* (lib.rs:195-197 and the same lines of every method)
MethodReturn(method, r) ==
    IF r.kind = "transport" THEN ReqwestError
    ELSE LET a == DeApiResult(method, r.body)
         IN  IF a.ok THEN Into(a.val) ELSE ReqwestError

---------------------------------------------------------------------------
(* The service, as the client sees it: the requests it is sent and the     *)
(* replies it may give.                                                    *)

\* a request: the method of the endpoint, the path segment after it, and
\* the query or form parameters as name -> value
Request(method, path, params) ==
    [method |-> method, path |-> path, params |-> params]

NoParams == [k \in {} |-> ""]

\* the values of the callers' arguments
NewShortName == "test"
SetterShortNames == {"wow"}
SetterAuthorNames == {"Anonymous"}
SetterAuthorUrls == {"https://t.me/x"}
SetterTokens == {"b968"}
ServiceTokens == {"c0de", "d1ce"}
PagePath == "Sample-Page-12-15"
PageTitle == "title"
PageContent == "[{\"tag\":\"p\",\"children\":[\"Hello, world\"]}]"
ErrorMessages == {"ACCESS_TOKEN_INVALID"}

\* the account the token of SetterTokens belongs to, as the service stores it
ExistingAccount ==
    [short_name |-> "work", author_name |-> "A. Author",
     author_url |-> "https://example.org"]

SuccessBody(r) == VObject(<< <<"ok", VBool(TRUE)>>, <<"result", r>> >>)
ErrorBody(msg) == VObject(<< <<"ok", VBool(FALSE)>>, <<"error", VString(msg)>> >>)

\* the Account object of an account a
AccountJson(a) ==
    VObject(<< <<"short_name", VString(a.short_name)>>,
               <<"author_name", VString(a.author_name)>>,
               <<"author_url", VString(a.author_url)>> >>)

PageJson ==
    VObject(<< <<"path", VString(PagePath)>>,
               <<"url", VString("https://telegra.ph/" \o PagePath)>>,
               <<"title", VString(PageTitle)>>,
               <<"description", VString("")>>,
               <<"views", VNumber(40)>> >>)

\* the value of parameter `name`, or `dflt` when the request has none
ParamOr(req, name, dflt) ==
    IF name \in DOMAIN req.params THEN req.params[name] ELSE dflt

\* the account after the service has carried out a createAccount or
\* editAccountInfo request: each parameter passed sets its field
AccountAfter(a, req) ==
    [short_name |-> ParamOr(req, "short_name", a.short_name),
     author_name |-> ParamOr(req, "author_name", a.author_name),
     author_url |-> ParamOr(req, "author_url", a.author_url)]

EmptyAccount == [short_name |-> "", author_name |-> "", author_url |-> ""]

\* the result objects of a successful reply to req
ServiceResults(req) ==
    CASE req.method = "createAccount" ->
            {VObject(AccountJson(AccountAfter(EmptyAccount, req)).members
                     \o << <<"access_token", VString(t)>>,
                           <<"auth_url", VString("https://edit.telegra.ph/auth/x")>> >>)
                : t \in ServiceTokens}
      [] req.method = "editAccountInfo" ->
            {AccountJson(AccountAfter(account, req))}
      [] req.method = "getAccountInfo" -> {AccountJson(account)}
      [] req.method = "revokeAccessToken" ->
            {VObject(<< <<"access_token", VString(t)>>,
                        <<"auth_url", VString("https://edit.telegra.ph/auth/x")>> >>)
                : t \in ServiceTokens \ {req.params["access_token"]}}
      [] req.method \in {"createPage", "editPage", "getPage"} -> {PageJson}
      [] req.method = "getPageList" ->
            {VObject(<< <<"total_count", VNumber(1)>>,
                        <<"pages", VArray(<<PageJson>>)>> >>)}
      [] req.method = "getViews" -> {VObject(<< <<"views", VNumber(40)>> >>)}

\* what the client may receive for req: a success, an error, a body that is
\* no reply object (a gateway's error page), or nothing (send() fails)
ServiceReplies(req) ==
    {ReplyBody(SuccessBody(r)) : r \in ServiceResults(req)}
        \cup {ReplyBody(ErrorBody(m)) : m \in ErrorMessages}
        \cup {ReplyBody(VString("Bad Gateway")), TransportFailure}

\* the reply is a success reply
IsSuccess(r) ==
    r.kind = "body" /\ r.body.j = "object" /\ Members(r.body, "result") # <<>>

---------------------------------------------------------------------------
(* The account builder and the Telegraph handle (lib.rs:37-382; blocking.rs *)
(* holds the same methods over the blocking client, statement for          *)
(* statement).                                                             *)

\* the longest `time` slice passed to get_views
MaxTimeLen == 5

\* lib.rs:47-52, 168-173
new(short_name) ==
    [access_token |-> None, short_name |-> short_name,
     author_name |-> None, author_url |-> None]

\* A program either starts from Telegraph::new and goes on with the builder
\* and the handle, or calls the associated functions get_page and get_views,
\* which take no `self` and so neither read nor write a builder or a handle.
ApiInit ==
    /\ \/ apiPc = "building" /\ builder = Some(new(NewShortName))
       \/ apiPc = "static" /\ builder = None
    /\ telegraph = None
    /\ requests = <<>>
    /\ reply = NoReply
    /\ result = NoResult
    /\ overridden = {}
    /\ revoked = None
    /\ edited = None
    /\ account = ExistingAccount
    /\ time = <<>>
    /\ op = "new"
    /\ ConvIdle
    /\ ConcIdle

\* a setter of the builder: `self.field = value; self`
Setter(field, value) ==
    /\ apiPc = "building"
    /\ builder' = Some([Unwrap(builder) EXCEPT ![field] = value])
    /\ overridden' = overridden \cup {field}
    /\ requests' = <<>>
    /\ reply' = NoReply
    /\ result' = NoResult
    /\ time' = <<>>
    /\ op' = field
    /\ UNCHANGED <<telegraph, apiPc, revoked, edited, account>>
    /\ UNCHANGED <<convVars, concVars>>

\* lib.rs:59-62
short_name(s) == Setter("short_name", s)
\* lib.rs:65-68
access_token(t) == Setter("access_token", Some(t))
\* lib.rs:71-74
author_name(n) == Setter("author_name", Some(n))
\* lib.rs:79-82
author_url(u) == Setter("author_url", Some(u))

\* create_account sending the short name alone
create_account_shortNameOnly(sn, an, au) ==
    Request("createAccount", "", "short_name" :> sn)

\* lib.rs:184-194: the createAccount request; the optional parameters are
\* inserted only when given
create_account(sn, an, au) ==
    Request("createAccount", "",
            ("short_name" :> sn)
                @@ (IF IsSome(an) THEN "author_name" :> Unwrap(an) ELSE NoParams)
                @@ (IF IsSome(au) THEN "author_url" :> Unwrap(au) ELSE NoParams))

\* the access_token of the result object of a success reply
IssuedToken(r) ==
    LET res == Members(r.body, "result")[1][2]
    IN  Some(Members(res, "access_token")[1][2].s)

\* lib.rs:93-111
create ==
    /\ apiPc = "building"
    /\ LET self == Unwrap(builder)
           Handle(token) ==
               [access_token |-> token,
                short_name |-> self.short_name,
                author_name |-> IF IsSome(self.author_name)
                                THEN Unwrap(self.author_name)
                                ELSE self.short_name,
                author_url |-> self.author_url]
       IN  IF IsSome(self.access_token)
           THEN /\ telegraph' = Some(Handle(Unwrap(self.access_token)))
                /\ requests' = <<>>
                /\ reply' = NoReply
                /\ result' = MethodResult("Ok", Handle(Unwrap(self.access_token)), "")
                /\ apiPc' = "ready"
                /\ revoked' = self.access_token
                /\ account' = account
           ELSE LET req == create_account(self.short_name, self.author_name,
                                          self.author_url)
                IN  \E r \in ServiceReplies(req) :
                      LET res == MethodReturn("createAccount", r)
                      IN  /\ requests' = <<req>>
                          /\ reply' = r
                          /\ account' = IF IsSuccess(r)
                                        THEN AccountAfter(EmptyAccount, req)
                                        ELSE account
                          /\ revoked' = IF IsSuccess(r) THEN IssuedToken(r) ELSE None
                          /\ IF res.kind # "Ok"
                             THEN /\ telegraph' = None
                                  /\ result' = res
                                  /\ apiPc' = "failed"
                             ELSE IF IsNone(res.val.access_token)
                             THEN /\ telegraph' = None
                                  /\ result' = NoResult
                                  /\ apiPc' = "panicked"
                             ELSE /\ telegraph' =
                                        Some(Handle(Unwrap(res.val.access_token)))
                                  /\ result' =
                                        MethodResult("Ok",
                                            Handle(Unwrap(res.val.access_token)), "")
                                  /\ apiPc' = "ready"
    /\ builder' = None
    /\ overridden' = {}
    /\ edited' = None
    /\ time' = <<>>
    /\ op' = "create"
    /\ UNCHANGED <<convVars, concVars>>

\* lib.rs:245-253
edit_account_info ==
    /\ apiPc = "ready"
    /\ LET self == Unwrap(telegraph)
       IN  builder' = Some([access_token |-> Some(self.access_token),
                            short_name |-> self.short_name,
                            author_name |-> Some(self.author_name),
                            author_url |-> self.author_url])
    /\ telegraph' = None
    /\ apiPc' = "building"
    /\ overridden' = {}
    /\ edited' = telegraph
    /\ requests' = <<>>
    /\ reply' = NoReply
    /\ result' = NoResult
    /\ time' = <<>>
    /\ op' = "edit_account_info"
    /\ UNCHANGED <<revoked, account>>
    /\ UNCHANGED <<convVars, concVars>>

\* lib.rs:115-125: the editAccountInfo request
EditRequest(self) ==
    Request("editAccountInfo", "",
            [k \in {"access_token", "short_name", "author_name", "author_url"} |->
                CASE k = "access_token" -> Unwrap(self.access_token)
                  [] k = "short_name" -> self.short_name
                  [] k = "author_name" -> Unwrap(self.author_name)
                  [] k = "author_url" -> IF IsSome(self.author_url)
                                         THEN Unwrap(self.author_url) ELSE ""])

\* lib.rs:114-138
edit ==
    /\ apiPc = "building"
    /\ LET self == Unwrap(builder)
       IN  IF IsNone(self.access_token) \/ IsNone(self.author_name)
           THEN /\ apiPc' = "panicked"
                /\ telegraph' = None
                /\ requests' = <<>>
                /\ reply' = NoReply
                /\ result' = NoResult
                /\ UNCHANGED <<revoked, account>>
           ELSE LET req == EditRequest(self)
                IN  \E r \in ServiceReplies(req) :
                      LET res == MethodReturn("editAccountInfo", r)
                      IN  /\ requests' = <<req>>
                          /\ reply' = r
                          /\ account' = IF IsSuccess(r)
                                        THEN AccountAfter(account, req)
                                        ELSE account
                          /\ IF res.kind # "Ok"
                             THEN /\ telegraph' = None
                                  /\ result' = res
                                  /\ apiPc' = "failed"
                                  /\ UNCHANGED revoked
                             ELSE IF IsNone(res.val.short_name)
                             THEN /\ telegraph' = None
                                  /\ result' = NoResult
                                  /\ apiPc' = "panicked"
                                  /\ UNCHANGED revoked
                             ELSE LET acc == res.val
                                      handle ==
                                        [access_token |-> Unwrap(self.access_token),
                                         short_name |-> Unwrap(acc.short_name),
                                         author_name |->
                                            IF IsSome(acc.author_name)
                                            THEN Unwrap(acc.author_name)
                                            ELSE Unwrap(acc.short_name),
                                         author_url |-> acc.author_url]
                                  IN  /\ telegraph' = Some(handle)
                                      /\ result' = MethodResult("Ok", handle, "")
                                      /\ apiPc' = "ready"
                                      /\ revoked' = self.access_token
    /\ builder' = None
    /\ overridden' = {}
    /\ edited' = None
    /\ time' = <<>>
    /\ op' = "edit"
    /\ UNCHANGED <<convVars, concVars>>

\* bool::to_string
BoolToString(b) == IF b THEN "true" ELSE "false"

\* `self.author_url.as_deref().unwrap_or("")`
UrlOrEmpty(o) == IF IsSome(o) THEN Unwrap(o) ELSE ""

\* a method of the handle: send the request, decode the reply, return
HandleCall(name, req) ==
    /\ apiPc = "ready"
    /\ op' = name
    /\ \E r \in ServiceReplies(req) :
          /\ requests' = <<req>>
          /\ reply' = r
          /\ result' = MethodReturn(req.method, r)
    /\ time' = <<>>
    /\ UNCHANGED <<builder, telegraph, apiPc, overridden, revoked, edited, account>>
    /\ UNCHANGED <<convVars, concVars>>

\* an associated function that needs no handle
StaticCall(name, req) ==
    /\ apiPc = "static"
    /\ op' = name
    /\ \E r \in ServiceReplies(req) :
          /\ requests' = <<req>>
          /\ reply' = r
          /\ result' = MethodReturn(req.method, r)
    /\ UNCHANGED <<builder, telegraph, apiPc, overridden, revoked, edited, account>>
    /\ UNCHANGED <<convVars, concVars>>

\* lib.rs:217-238
create_page(title, page_content, return_content) ==
    /\ apiPc = "ready"
    /\ LET self == Unwrap(telegraph)
       IN  HandleCall("create_page", Request("createPage", "",
                ("access_token" :> self.access_token)
                    @@ ("title" :> title)
                    @@ ("author_name" :> self.author_name)
                    @@ ("author_url" :> UrlOrEmpty(self.author_url))
                    @@ ("content" :> page_content)
                    @@ ("return_content" :> BoolToString(return_content))))

\* lib.rs:258-280
edit_page(path, title, page_content, return_content) ==
    /\ apiPc = "ready"
    /\ LET self == Unwrap(telegraph)
       IN  HandleCall("edit_page", Request("editPage", "",
                ("access_token" :> self.access_token)
                    @@ ("path" :> path)
                    @@ ("title" :> title)
                    @@ ("author_name" :> self.author_name)
                    @@ ("author_url" :> UrlOrEmpty(self.author_url))
                    @@ ("content" :> page_content)
                    @@ ("return_content" :> BoolToString(return_content))))

\* lib.rs:285-296
get_account_info(fields) ==
    /\ apiPc = "ready"
    /\ LET self == Unwrap(telegraph)
       IN  HandleCall("get_account_info", Request("getAccountInfo", "",
                ("access_token" :> self.access_token)
                    @@ ("fields" :>
                            Render(VArray([i \in DOMAIN fields |->
                                                VString(fields[i])])))))

\* lib.rs:299-306
get_page(path, return_content) ==
    /\ StaticCall("get_page", Request("getPage", path,
                          "return_content" :> BoolToString(return_content)))
    /\ time' = <<>>

\* lib.rs:314-326
get_page_list(offset, limit) ==
    /\ apiPc = "ready"
    /\ LET self == Unwrap(telegraph)
       IN  HandleCall("get_page_list", Request("getPageList", "",
                ("access_token" :> self.access_token)
                    @@ ("offset" :> ToString(offset))
                    @@ ("limit" :> ToString(limit))))

\* Zip pairing the last elements of b with the last of a
Zip_fromEnd(a, b) ==
    LET n == IF Len(a) < Len(b) THEN Len(a) ELSE Len(b)
    IN  [i \in 1..n |-> <<a[Len(a) - n + i], b[Len(b) - n + i]>>]

\* Iterator::zip: pairs up to the end of the shorter
Zip(a, b) ==
    LET n == IF Len(a) < Len(b) THEN Len(a) ELSE Len(b)
    IN  [i \in 1..n |-> <<a[i], b[i]>>]

\* collect::<HashMap<_, _>>(): a key inserted twice keeps the later value
CollectHashMap(pairs) ==
    [k \in {pairs[i][1] : i \in DOMAIN pairs} |->
        LET last == CHOOSE i \in DOMAIN pairs :
                        /\ pairs[i][1] = k
                        /\ \A m \in DOMAIN pairs : pairs[m][1] = k => m <= i
        IN  pairs[last][2]]

\* lib.rs:344-347, and the map written as query parameters
ViewsParams(t) ==
    LET params == CollectHashMap(Zip(<<"year", "month", "day", "hour">>, t))
    IN  [k \in DOMAIN params |-> ToString(params[k])]

\* the slices passed as `time`: the runs of 2016, 2017, ...
TimeSlices ==
    {[i \in 1..(b - a + 1) |-> 2014 + a + i] :
        a \in 1..MaxTimeLen, b \in 0..MaxTimeLen}

\* lib.rs:343-355
get_views(path, t) ==
    /\ StaticCall("get_views", Request("getViews", path, ViewsParams(t)))
    /\ time' = t

\* revoke_access_token leaving the stored token as it was
StoredAfterRevoke_kept(self, res) == self

\* lib.rs:372-380
StoredAfterRevoke(self, res) ==
    IF res.kind = "Ok"
    THEN [self EXCEPT !.access_token = Unwrap(res.val.access_token)]
    ELSE self

\* lib.rs:364-382
revoke_access_token ==
    /\ apiPc = "ready"
    /\ LET self == Unwrap(telegraph)
           req == Request("revokeAccessToken", "",
                          "access_token" :> self.access_token)
       IN  \E r \in ServiceReplies(req) :
              LET res == MethodReturn("revokeAccessToken", r)
              IN  /\ requests' = <<req>>
                  /\ reply' = r
                  /\ revoked' = IF IsSuccess(r) THEN IssuedToken(r) ELSE revoked
                  /\ IF res.kind = "Ok" /\ IsNone(res.val.access_token)
                     THEN /\ apiPc' = "panicked"
                          /\ result' = NoResult
                          /\ UNCHANGED telegraph
                     ELSE /\ telegraph' = Some(StoredAfterRevoke(self, res))
                          /\ result' = res
                          /\ UNCHANGED apiPc
    /\ time' = <<>>
    /\ op' = "revoke_access_token"
    /\ UNCHANGED <<builder, overridden, edited, account>>
    /\ UNCHANGED <<convVars, concVars>>

ApiNext ==
    \/ \E s \in SetterShortNames : short_name(s)
    \/ \E t \in SetterTokens : access_token(t)
    \/ \E n \in SetterAuthorNames : author_name(n)
    \/ \E u \in SetterAuthorUrls : author_url(u)
    \/ create
    \/ edit_account_info
    \/ edit
    \/ \E rc \in BOOLEAN : create_page(PageTitle, PageContent, rc)
    \/ \E rc \in BOOLEAN : edit_page(PagePath, PageTitle, PageContent, rc)
    \/ \E fields \in {<<>>, <<"short_name", "page_count">>} :
          get_account_info(fields)
    \/ \E rc \in BOOLEAN : get_page(PagePath, rc)
    \/ get_page_list(0, 3)
    \/ \E t \in TimeSlices : get_views(PagePath, t)
    \/ revoke_access_token

ApiSpec == ApiInit /\ [][ApiNext]_vars

---------------------------------------------------------------------------
(* Vocabulary of the properties. *)

\* html_to_node has returned its string
Returned == pc \in {"returned", "decoded"}

\* the child nodes of the node html_to_node descends into (lib.rs:451-457)
EffectiveChilds ==
    get_child_nodes(Unwrap(get_first_element_child(Unwrap(parsed.root))))

\* the node kinds the conversion keeps
IsRetained(node) == node.type \in {"TextNode", "ElementNode"}
RetainedOf(childs) == SelectSeq(childs, IsRetained)

HasKey(obj, key) == \E i \in DOMAIN obj.members : obj.members[i][1] = key
KeysOf(obj) == [i \in DOMAIN obj.members |-> obj.members[i][1]]

\* every NodeElement of a sequence of nodes, at any depth
RECURSIVE NodeElementsIn(_)
NodeElementsIn(ns) ==
    UNION {IF ns[i].variant = "Text" THEN {}
           ELSE {ns[i]} \cup (IF IsSome(ns[i].children)
                              THEN NodeElementsIn(Unwrap(ns[i].children))
                              ELSE {}) : i \in DOMAIN ns}

\* every element object of a serialized array, at any depth
RECURSIVE ElementObjectsIn(_)
ElementObjectsIn(arr) ==
    UNION {IF arr.items[i].j # "object" THEN {}
           ELSE {arr.items[i]}
                \cup UNION {ElementObjectsIn(m[2]) :
                              m \in {x \in Range(arr.items[i].members) :
                                        x[1] = "children" /\ x[2].j = "array"}} :
           i \in DOMAIN arr.items}

\* the Nodes among a Vec<Option<Node>>
SomeNodes(os) ==
    LET somes == SelectSeq(os, IsSome)
    IN  [i \in DOMAIN somes |-> Unwrap(somes[i])]

---------------------------------------------------------------------------
(* C1: for every element at the top level of the effective root whose      *)
(* children mix a dropped node (comment) with at least one text or element *)
(* node, the converted element has its children field present and equal to *)
(* the conversions of the text/element children, in source order.          *)
C1_DroppedNodeKeepsSiblings ==
    Returned =>
        \A i \in DOMAIN EffectiveChilds :
            LET e == EffectiveChilds[i]
                kept == RetainedOf(e.childs)
            IN  (/\ e.type = "ElementNode"
                 /\ kept # <<>>
                 /\ Len(kept) < Len(e.childs))
                => /\ IsSome(nodes[i])
                   /\ IsSome(Unwrap(nodes[i]).children)
                   /\ Unwrap(Unwrap(nodes[i]).children)
                        = [k \in DOMAIN kept |-> Unwrap(html_to_node_inner(kept[k]))]

(* C2: the returned array has exactly one entry per retained (text or      *)
(* element) top-level child, and each entry is a JSON string or an element *)
(* object, never null.                                                     *)
C2_OneEntryPerRetainedChild ==
    Returned =>
        /\ Len(json.items) = Len(RetainedOf(EffectiveChilds))
        /\ \A i \in DOMAIN json.items : json.items[i].j \in {"string", "object"}

C4_DocExampleAttrsNull ==
    (/\ Returned
     /\ parsed = BodyDocument(<<ElementNode("p", <<>>, <<TextNode("Hello, world")>>)>>))
    => out = "[{\"tag\":\"p\",\"attrs\":null,\"children\":[\"Hello, world\"]}]"

(* C5: the keys of an element's attrs object are written in the order the  *)
(* attributes appear in the source markup (so that the output is the same  *)
(* string on every run).                                                   *)
C5_AttrsInSourceOrder ==
    Returned =>
        \A i \in DOMAIN EffectiveChilds :
            LET e == EffectiveChilds[i]
            IN  (e.type = "ElementNode" /\ Len(e.attrs) >= 2) =>
                    \E m \in Range(json.items[i].members) :
                        /\ m[1] = "attrs"
                        /\ KeysOf(m[2]) = [k \in DOMAIN e.attrs |-> e.attrs[k][1]]

\* the node (or nothing) converted from a DOM node keeps its kind, text and
\* tag, and children that are present follow the source children one by one
RECURSIVE Matches(_, _)
Matches(dom, node) ==
    CASE dom.type = "TextNode" ->
            node.variant = "Text" /\ node.text = dom.content
      [] dom.type = "ElementNode" ->
            /\ node.variant = "NodeElement"
            /\ node.tag = dom.name
            /\ IsSome(node.children) =>
                  /\ Len(Unwrap(node.children)) = Len(dom.childs)
                  /\ \A k \in DOMAIN dom.childs :
                        Matches(dom.childs[k], Unwrap(node.children)[k])
      [] OTHER -> FALSE

\* the same, of a serialized entry
RECURSIVE MatchesValue(_, _)
MatchesValue(dom, v) ==
    CASE dom.type = "TextNode" -> v.j = "string" /\ v.s = dom.content
      [] dom.type = "ElementNode" ->
            /\ v.j = "object"
            /\ v.members[1] = <<"tag", VString(dom.name)>>
            /\ \A m \in Range(v.members) :
                  m[1] = "children" =>
                      /\ Len(m[2].items) = Len(dom.childs)
                      /\ \A k \in DOMAIN dom.childs :
                            MatchesValue(dom.childs[k], m[2].items[k])
      [] OTHER -> v.j = "null"

(* C6: sibling order.  The top-level array has one entry per source child, *)
(* the i-th entry converted from the i-th child, and wherever an element's *)
(* children field is present its i-th node is converted from the i-th      *)
(* source child: nothing is reordered, merged or deduplicated.             *)
C6_SiblingOrderPreserved ==
    Returned =>
        /\ Len(nodes) = Len(EffectiveChilds)
        /\ Len(json.items) = Len(EffectiveChilds)
        /\ \A i \in DOMAIN EffectiveChilds :
              /\ IsSome(nodes[i]) <=> IsRetained(EffectiveChilds[i])
              /\ IsSome(nodes[i]) => Matches(EffectiveChilds[i], Unwrap(nodes[i]))
              /\ MatchesValue(EffectiveChilds[i], json.items[i])

\* an element whose two children differ has been converted with its children
\* present
C6_Witness ==
    /\ Returned
    /\ \E i \in DOMAIN nodes :
          /\ IsSome(nodes[i])
          /\ Unwrap(nodes[i]).variant = "NodeElement"
          /\ IsSome(Unwrap(nodes[i]).children)
          /\ Len(Unwrap(Unwrap(nodes[i]).children)) = 2
          /\ Unwrap(Unwrap(nodes[i]).children)[1].variant
                # Unwrap(Unwrap(nodes[i]).children)[2].variant

(* C7: an attribute without a value in the source is a key of attrs whose  *)
(* value is absent, and is written as "name":null, never as an empty       *)
(* string and never left out.                                              *)
C7_ValuelessAttrIsNull ==
    Returned =>
        /\ \A i \in DOMAIN EffectiveChilds :
              LET e == EffectiveChilds[i]
              IN  e.type = "ElementNode" =>
                    \A a \in Range(e.attrs) :
                        IsNone(a[2]) =>
                            /\ IsSome(Unwrap(nodes[i]).attrs)
                            /\ a[1] \in DOMAIN Unwrap(Unwrap(nodes[i]).attrs)
                            /\ IsNone(Unwrap(Unwrap(nodes[i]).attrs)[a[1]])
                            /\ \E m \in Range(json.items[i].members) :
                                  /\ m[1] = "attrs"
                                  /\ Len(SelectSeq(m[2].members,
                                                   LAMBDA x : x[1] = a[1])) = 1
                                  /\ <<a[1], VNull>> \in Range(m[2].members)
        /\ parsed = BodyDocument(<<ElementNode("p", << <<"disabled", None>> >>, <<>>)>>)
              => out = "[{\"tag\":\"p\",\"attrs\":{\"disabled\":null}}]"

\* an element with a value-less attribute has been converted
C7_Witness ==
    /\ Returned
    /\ parsed = BodyDocument(<<ElementNode("p", << <<"disabled", None>> >>, <<>>)>>)

(* C8: for the empty fragment (the parser yields no document, no root      *)
(* element or a root without an element child) html_to_node returns "[]"   *)
(* and does not panic.                                                     *)
C8_EmptyFragmentGivesEmptyArray ==
    (parsed \in EmptyFragmentOutcomes /\ pc # "call")
        => (Returned /\ out = "[]")

(* C9: when the parser fails or the document has no root element, the      *)
(* caller gets an error value: the call never panics.                      *)
C9_NoRootIsReportedNotPanicked ==
    (~parsed.ok \/ IsNone(parsed.root)) => pc # "panicked"

(* C10: round trip.  Decoding the serialized array of Nodes through the    *)
(* untagged Node decoder yields the same sequence of Nodes: strings become *)
(* Text, objects NodeElement, omitted attrs/children absent, and a null    *)
(* attribute value an absent value.                                        *)
C10_RoundTrip ==
    (pc = "decoded" /\ \A i \in DOMAIN nodes : IsSome(nodes[i]))
        => /\ content.ok
           /\ content.val = SomeNodes(nodes)

\* an array holding an element with a null-valued attribute and children, and
\* an element or text without attrs, has been decoded
C10_Witness ==
    /\ pc = "decoded"
    /\ content.ok
    /\ \A i \in DOMAIN nodes : IsSome(nodes[i])
    /\ \E e \in NodeElementsIn(content.val) :
          /\ IsSome(e.attrs)
          /\ "disabled" \in DOMAIN Unwrap(e.attrs)
          /\ IsNone(Unwrap(e.attrs)["disabled"])
          /\ IsSome(e.children)
    /\ \E e \in NodeElementsIn(content.val) : IsNone(e.attrs) /\ IsNone(e.children)

(* C11: in the output a Text node is a bare JSON string and an element is  *)
(* an object whose keys are, in this order, tag, attrs (when present) and  *)
(* children (when present); tag is always there and always first.          *)
C11_KeyOrder ==
    Returned =>
        /\ \A o \in ElementObjectsIn(json) :
              KeysOf(o) \in {<<"tag">>, <<"tag", "attrs">>, <<"tag", "children">>,
                             <<"tag", "attrs", "children">>}
        /\ \A i \in DOMAIN nodes :
              IsSome(nodes[i]) =>
                  LET n == Unwrap(nodes[i])
                  IN  IF n.variant = "Text" THEN json.items[i] = VString(n.text)
                      ELSE /\ json.items[i].j = "object"
                           /\ HasKey(json.items[i], "attrs") <=> IsSome(n.attrs)
                           /\ HasKey(json.items[i], "children") <=> IsSome(n.children)
        /\ parsed = BodyDocument(<<ElementNode("p", << <<"href", Some("u")>> >>,
                                               <<TextNode("Hello, world")>>)>>)
              => out = "[{\"tag\":\"p\",\"attrs\":{\"href\":\"u\"},\"children\":[\"Hello, world\"]}]"

\* an element with attributes and children, and a text node, have been written
C11_Witness ==
    /\ Returned
    /\ \E o \in ElementObjectsIn(json) : KeysOf(o) = <<"tag", "attrs", "children">>
    /\ \E i \in DOMAIN json.items : json.items[i].j = "string"

\* every string of a serialized value: texts, tags, attribute values
RECURSIVE StringsIn(_)
StringsIn(v) ==
    CASE v.j = "string" -> {v.s}
      [] v.j = "array" -> UNION {StringsIn(v.items[i]) : i \in DOMAIN v.items}
      [] v.j = "object" ->
            UNION {StringsIn(v.members[i][2]) : i \in DOMAIN v.members}
      [] OTHER -> {}

\* every NodeElement tag and Text of a sequence of nodes, at any depth
RECURSIVE NodeStringsIn(_)
NodeStringsIn(ns) ==
    UNION {IF ns[i].variant = "Text" THEN {ns[i].text}
           ELSE {ns[i].tag} \cup (IF IsSome(ns[i].children)
                                  THEN NodeStringsIn(Unwrap(ns[i].children))
                                  ELSE {}) : i \in DOMAIN ns}

(* C12: nothing below a node that is neither text nor element reaches the  *)
(* output: its descendants' text and tags occur neither in the node tree   *)
(* nor in the returned array, and it takes no more than its own place (a   *)
(* top-level entry is None; nothing is hoisted in its stead).              *)
C12_DroppedSubtreeIsLost ==
    Returned =>
        /\ NodeStringsIn(SomeNodes(nodes)) \cap {"hidden", "s"} = {}
        /\ StringsIn(json) \cap {"hidden", "s"} = {}
        /\ Len(nodes) = Len(EffectiveChilds)
        /\ \A i \in DOMAIN EffectiveChilds :
              ~IsRetained(EffectiveChilds[i])
                  => IsNone(nodes[i]) /\ json.items[i] = VNull

\* a node of another kind that has children has been met, at the top level or
\* below an element
C12_Witness ==
    /\ Returned
    /\ \E i \in DOMAIN EffectiveChilds :
          \/ /\ EffectiveChilds[i].type = "EntityRefNode"
             /\ EffectiveChilds[i].childs # <<>>
             /\ Len(EffectiveChilds) = 2
          \/ /\ EffectiveChilds[i].type = "ElementNode"
             /\ \E k \in DOMAIN EffectiveChilds[i].childs :
                   /\ EffectiveChilds[i].childs[k].type = "EntityRefNode"
                   /\ EffectiveChilds[i].childs[k].childs # <<>>

\* the children of the root's body element
BodyChilds ==
    LET root == Unwrap(parsed.root)
        idx == {i \in DOMAIN root.childs : root.childs[i].name = "body"}
    IN  root.childs[CHOOSE i \in idx : TRUE].childs

(* C19: html_to_node converts the children of the document's body, also    *)
(* when the root has an element child (head) before the body.              *)
C19_EffectiveRootIsBody ==
    Returned =>
        /\ Len(json.items) = Len(BodyChilds)
        /\ \A i \in DOMAIN BodyChilds : MatchesValue(BodyChilds[i], json.items[i])

\* html_to_node run alone on the parse outcome d panics
PanicsAlone(d) ==
    \/ ~d.ok
    \/ IsNone(d.root)
    \/ IsNone(get_first_element_child(Unwrap(d.root)))

\* the strings html_to_node may return when run alone on the parse outcome d
AloneOutputs(d) ==
    LET childs == get_child_nodes(Unwrap(get_first_element_child(Unwrap(d.root))))
    IN  {Render(v) :
            v \in SerVecOptionNode([i \in DOMAIN childs |->
                                        html_to_node_inner(childs[i])])}

CarriesOption(req, name, o) ==
    IF IsSome(o)
    THEN name \in DOMAIN req.params /\ req.params[name] = Unwrap(o)
    ELSE name \notin DOMAIN req.params

(* C14: AccountBuilder::create with access_token set sends no request and  *)
(* yields a handle holding that token; with none set it sends exactly one  *)
(* createAccount request carrying the builder's short_name, author_name    *)
(* and author_url, yields a handle holding the token the service issued,   *)
(* and on a failed request returns Err and no handle.                      *)
C14_CreateImportsOrCreates ==
    [][(op' = "create" /\ IsSome(builder)) =>
        LET self == Unwrap(builder)
        IN  IF IsSome(self.access_token)
            THEN /\ requests' = <<>>
                 /\ result'.kind = "Ok"
                 /\ IsSome(telegraph')
                 /\ Unwrap(telegraph').access_token = Unwrap(self.access_token)
            ELSE /\ Len(requests') = 1
                 /\ requests'[1].method = "createAccount"
                 /\ requests'[1].params["short_name"] = self.short_name
                 /\ CarriesOption(requests'[1], "author_name", self.author_name)
                 /\ CarriesOption(requests'[1], "author_url", self.author_url)
                 /\ IF IsSuccess(reply')
                    THEN /\ result'.kind = "Ok"
                         /\ IsSome(telegraph')
                         /\ Some(Unwrap(telegraph').access_token) = IssuedToken(reply')
                    ELSE /\ result'.kind \in {"ApiError", "ReqwestError"}
                         /\ telegraph' = None]_vars

\* create has made an account with an author name and holds the issued token
C14_Witness ==
    /\ op = "create"
    /\ Len(requests) = 1
    /\ "author_name" \in DOMAIN requests[1].params
    /\ IsSuccess(reply)
    /\ IsSome(telegraph)
    /\ Unwrap(telegraph).access_token \in ServiceTokens

\* the methods of the handle, each of which sends the stored access_token
HandleMethods ==
    {"create_page", "edit_page", "get_account_info", "get_page_list",
     "revoke_access_token"}

(* C15: a revoke_access_token the service answers with success returns the *)
(* Account carrying the new token and stores that token in the handle, so  *)
(* every request of the handle carries the token of the most recent        *)
(* successful revoke, or the token the handle was made with if none        *)
(* succeeded.                                                              *)
C15_RequestsCarryLatestToken ==
    [][/\ (op' = "revoke_access_token" /\ IsSuccess(reply')) =>
            /\ result'.kind = "Ok"
            /\ result'.val.access_token = IssuedToken(reply')
            /\ Some(Unwrap(telegraph').access_token) = IssuedToken(reply')
       /\ (op' \in HandleMethods /\ apiPc = "ready") =>
            /\ Len(requests') = 1
            /\ requests'[1].params["access_token"] = Unwrap(revoked)]_vars

\* a handle imported with the caller's token has had a revoke succeed, and a
\* second revoke, sent with the token the first one issued, succeeds too
C15_Witness ==
    /\ op = "revoke_access_token"
    /\ IsSuccess(reply)
    /\ account = ExistingAccount
    /\ requests[1].params["access_token"] \in ServiceTokens
    /\ Unwrap(telegraph).access_token # requests[1].params["access_token"]

\* the calls that end in `response.json::<ApiResult<T>>().await?.into()`
ApiMethods ==
    {"create", "create_page", "edit_page", "get_account_info", "get_page",
     "get_page_list", "get_views", "revoke_access_token"}

\* the decoded value carries the strings of the result object
CarriesResult(val, obj) ==
    /\ op \in {"get_account_info", "revoke_access_token"} =>
          \A k \in {"short_name", "author_name", "author_url", "access_token"} :
              val[k] = IF HasKey(obj, k) THEN Some(Members(obj, k)[1][2].s) ELSE None
    /\ op \in {"create_page", "edit_page", "get_page"} =>
          \A k \in {"path", "url", "title", "description"} :
              val[k] = Members(obj, k)[1][2].s
    /\ op = "get_page_list" =>
          val.total_count = Members(obj, "total_count")[1][2].n
    /\ op = "get_views" => val.views = Members(obj, "views")[1][2].n
    /\ op = "create" => Some(val.access_token) = IssuedToken(reply)

(* C16: every API method maps the reply the same way: a reply carrying a   *)
(* result yields Ok(result), a reply carrying an error yields              *)
(* Err(Error::ApiError(msg)) with the service's message, and an error      *)
(* reply is never turned into Ok.                                          *)
C16_ReplyMapping ==
    (op \in ApiMethods /\ reply.kind = "body" /\ reply.body.j = "object") =>
        /\ HasKey(reply.body, "result") =>
              /\ result.kind = "Ok"
              /\ CarriesResult(result.val, Members(reply.body, "result")[1][2])
        /\ HasKey(reply.body, "error") =>
              /\ result.kind = "ApiError"
              /\ result.msg = Members(reply.body, "error")[1][2].s

\* a method of the handle has returned the service's error
C16_Witness ==
    /\ op = "create_page"
    /\ reply.kind = "body"
    /\ reply.body.j = "object"
    /\ HasKey(reply.body, "error")
    /\ result = MethodResult("ApiError", VNull, "ACCESS_TOKEN_INVALID")

(* C17: get_views sends the first min(k, 4) elements of a `time` of length *)
(* k as year, month, day, hour, in this order, and nothing else: no time   *)
(* parameter for an empty slice, and nothing for elements past the fourth. *)
C17_TimeIsPositional ==
    op = "get_views" =>
        LET names == <<"year", "month", "day", "hour">>
            k == IF Len(time) < 4 THEN Len(time) ELSE 4
            req == requests[1]
        IN  /\ req.method = "getViews"
            /\ DOMAIN req.params = {names[i] : i \in 1..k}
            /\ \A i \in 1..k : req.params[names[i]] = ToString(time[i])

\* get_views has been called with five elements and has sent the first four
C17_Witness ==
    /\ op = "get_views"
    /\ time = <<2016, 2017, 2018, 2019, 2020>>
    /\ requests[1].params = ("year" :> "2016") @@ ("month" :> "2017")
                                @@ ("day" :> "2018") @@ ("hour" :> "2019")

\* the fields of an account that editAccountInfo can set
AccountFields == {"short_name", "author_name", "author_url"}

(* C18: edit_account_info, setters, edit(): the request carries the        *)
(* handle's access_token, the new value of each overridden field and the   *)
(* handle's value of each other field, so that the fields of the account   *)
(* the caller did not override are left as they were.                      *)
C18_EditLeavesOtherFieldsAsTheyWere ==
    [][(op' = "edit" /\ IsSome(builder) /\ IsSome(edited)) =>
        LET self == Unwrap(builder)
            handle == Unwrap(edited)
            req == requests'[1]
        IN  /\ Len(requests') = 1
            /\ req.method = "editAccountInfo"
            /\ "access_token" \notin overridden =>
                  req.params["access_token"] = handle.access_token
            /\ req.params["short_name"] = self.short_name
            /\ req.params["author_name"] = Unwrap(self.author_name)
            /\ req.params["author_url"] = UrlOrEmpty(self.author_url)
            /\ "short_name" \notin overridden =>
                  req.params["short_name"] = handle.short_name
            /\ "author_name" \notin overridden =>
                  req.params["author_name"] = handle.author_name
            /\ "author_url" \notin overridden =>
                  req.params["author_url"] = UrlOrEmpty(handle.author_url)
            /\ IsSuccess(reply') =>
                  \A f \in AccountFields \ overridden : account'[f] = account[f]]_vars
====
